---- MODULE Spec2Model ----
(***************************************************************************)
(* libtsm screen selections (src/tsm/tsm-selection.c).                     *)
(*                                                                         *)
(* The screen `con` is the state: the scrollback list (sb, oldest first,   *)
(* sb_first = sb[1], sb_last = sb[Len(sb)]), the viewport rows (lines),    *)
(* the scroll cursor sb_pos, the selection (sel_active, sel_start,         *)
(* sel_end) and the age counter age_cnt.  A `struct line *` is a row       *)
(* reference: NULL, 1..Len(sb) for a scrollback row (list order is sb_id   *)
(* order), Len(sb)+1+i for con->lines[i].  Text is a sequence of UTF-8     *)
(* bytes.                                                                  *)
(***************************************************************************)
EXTENDS Integers, Sequences, FiniteSets, TLC

VARIABLES sb, lines, sb_pos, sel_active, sel_start, sel_end, age_cnt,
          op, ret, out, norm_res

vars == <<sb, lines, sb_pos, sel_active, sel_start, sel_end, age_cnt,
          op, ret, out, norm_res>>

\* the screen proper: everything a selection operation may read or write
con == <<sb, lines, sb_pos, sel_active, sel_start, sel_end, age_cnt>>

----------------------------------------------------------------------------
\* Bounds of the model
SizeX == 3
SizeY == 2
MaxHist == 2
MaxAge == 2

\* Program constants: the null pointer, the row index of a position above all
\* retained rows, three errno values, the line break
NULL == 0
SELECTION_TOP == -1
ENOENT == 2
ENOMEM == 12
EINVAL == 22
NEWLINE == 10

----------------------------------------------------------------------------
\* Cells and rows

\* a row: the characters of its cells (0 for an empty cell), the age of each
\* cell and the age of the row
Row(chars) == [ch |-> chars, cell_age |-> [i \in 1..Len(chars) |-> 0], age |-> 0]

\* "a cd..": letters from 'a' (97) with a space (32) in column 1, no empty
\* cell
RowGap == Row([i \in 1..SizeX |-> IF i = 2 THEN 32 ELSE 97 + i - 1])

\* ".bc..": an empty first cell, then letters to the end of the row
RowHole == Row([i \in 1..SizeX |-> IF i = 1 THEN 0 ELSE 97 + i - 1])

\* the three-byte symbol U+20AC in column 0, nothing after it
RowShort == Row([i \in 1..SizeX |-> IF i = 1 THEN 8364 ELSE 0])

\* the row contents the model draws from, by number
RowPats == <<RowGap, RowHole, RowShort>>
NumPat == Len(RowPats)
RowPat(n) == RowPats[n + 1]

\* the screen contents: viewport rows Short, Gap, Hole, .. from the top and
\* scrollback rows Hole, Gap, Short, .. from the newest back
ViewPat(i) == RowPat((i + 2) % NumPat)
HistPat(g, h) == RowPat((1 + 2 * (h - g)) % NumPat)

\* line->size
Size(line) == Len(line.ch)

\* all rows by reference: scrollback first, then the viewport array
Rows == sb \o lines

sb_first == IF Len(sb) = 0 THEN NULL ELSE 1
sb_last == Len(sb)

\* iter->next in the scrollback list
NextLine(ref) == IF ref < Len(sb) THEN ref + 1 ELSE NULL

\* con->lines[i]
LinesRef(i) == Len(sb) + 1 + i

Pos(l, px, py) == [line |-> l, x |-> px, y |-> py]

----------------------------------------------------------------------------
\* selection_age

\* for (j = lo; j <= hi && j < bound && j < line->size; ++j) cells[j].age = age
StampCells(line, lo, hi, bound, age) ==
    [line EXCEPT !.cell_age = [j \in 1..Size(line) |->
        IF lo <= j - 1 /\ j - 1 <= hi /\ j - 1 < bound
        THEN age
        ELSE line.cell_age[j]]]

\* start->y == k - 1, an int against an unsigned: with k = 0 only -1 matches
YIsK(y, k) == IF k = 0 THEN y = SELECTION_TOP ELSE y = k - 1

\* a position lies above the first displayed row
AboveView(p) ==
    IF p.line # NULL THEN (sb_pos = NULL \/ p.line < sb_pos)
    ELSE p.y = SELECTION_TOP

RECURSIVE AgeLoop(_, _, _, _, _, _, _, _)
AgeLoop(R, i, iter, k, in_sel, start, end, age) ==
    IF i >= SizeY THEN R
    ELSE
      LET line == IF iter # NULL THEN iter ELSE LinesRef(k)
          iter2 == IF iter # NULL THEN NextLine(iter) ELSE NULL
          k2 == IF iter # NULL THEN k ELSE k + 1
          sel_s == start.line = line \/ (start.line = NULL /\ YIsK(start.y, k2))
          sel_e == end.line = line \/ (end.line = NULL /\ YIsK(end.y, k2))
          big == Size(R[line])
          newline ==
            IF sel_s /\ sel_e THEN
                IF start.x <= end.x
                THEN StampCells(R[line], start.x, end.x, big, age)
                ELSE StampCells(R[line], end.x, start.x, big, age)
            ELSE IF sel_s THEN
                IF in_sel THEN StampCells(R[line], 0, start.x, big, age)
                ELSE StampCells(R[line], start.x, big, SizeX, age)
            ELSE IF sel_e THEN
                IF in_sel THEN StampCells(R[line], 0, end.x, big, age)
                ELSE StampCells(R[line], end.x, big, SizeX, age)
            ELSE IF in_sel THEN [R[line] EXCEPT !.age = age]
            ELSE R[line]
          in2 == IF sel_s /\ sel_e THEN in_sel
                 ELSE IF sel_s \/ sel_e THEN ~in_sel
                 ELSE in_sel
      IN AgeLoop([R EXCEPT ![line] = newline], i + 1, iter2, k2, in2,
                 start, end, age)

\* the rows after selection_age(con, start, end) with con->age_cnt = age
selection_age(R, start, end, age) ==
    LET in1 == AboveView(start)
        in2 == IF AboveView(end) THEN ~in1 ELSE in1
    IN IF AboveView(end) /\ ~in2 THEN R
       ELSE AgeLoop(R, 0, sb_pos, 0, in2, start, end, age)

----------------------------------------------------------------------------
\* selection_set

RECURSIVE SetWalk(_, _)
SetWalk(pos, y) ==
    IF y # 0 /\ pos # NULL THEN SetWalk(NextLine(pos), y - 1) ELSE <<pos, y>>

selection_set(x, y) ==
    LET w == SetWalk(sb_pos, y) IN Pos(w[1], x, w[2])

\* screen_inc_age
screen_inc_age(age) == age + 1

----------------------------------------------------------------------------
\* line_get: the row reference that display row y resolves to

line_get(y) ==
    LET w == SetWalk(sb_pos, y)
    IN IF w[1] # NULL THEN w[1] ELSE LinesRef(w[2])

\* iswalnum: letters and digits
iswalnum(c) ==
    \/ (48 <= c /\ c <= 57)
    \/ (65 <= c /\ c <= 90)
    \/ (97 <= c /\ c <= 122)

\* the cell character at column i of a row; columns are 0-based
ChAt(line, i) == line.ch[i + 1]

\* for (i = posx - 1; i >= 0 && iswalnum(cells[i].ch); i--);  startx = i + 1
RECURSIVE ScanLeft(_, _)
ScanLeft(line, i) ==
    IF i >= 0 /\ iswalnum(ChAt(line, i)) THEN ScanLeft(line, i - 1) ELSE i + 1

\* the scan to the right with endx = i instead of i - 1
RECURSIVE ScanRightPastEnd(_, _)
ScanRightPastEnd(line, i) ==
    IF i < Size(line) /\ iswalnum(ChAt(line, i))
    THEN ScanRightPastEnd(line, i + 1)
    ELSE i

\* for (i = posx + 1; i < size && iswalnum(cells[i].ch); i++);  endx = i - 1
RECURSIVE ScanRight(_, _)
ScanRight(line, i) ==
    IF i < Size(line) /\ iswalnum(ChAt(line, i)) THEN ScanRight(line, i + 1)
    ELSE i - 1

\* the guard with "not empty" in place of iswalnum
WordHitNotEmpty(line, posx) == posx < Size(line) /\ ChAt(line, posx) # 0

\* the guard of tsm_screen_selection_word
WordHit(line, posx) == posx < Size(line) /\ iswalnum(ChAt(line, posx))

----------------------------------------------------------------------------
\* Text extraction

\* the caller's char *: not written by the call, or the text it was set to
NoOut == [set |-> FALSE, text |-> <<>>]
Buf(t) == [set |-> TRUE, text |-> t]

\* tsm_ucs4_to_utf8: the bytes of one codepoint; nothing for an invalid one
Utf8(g) ==
    IF (g >= 55296 /\ g <= 57343) \/ g > 1114111 \/ g < 0
       \/ g % 65536 = 65535 \/ g % 65536 = 65534
       \/ (g >= 64976 /\ g <= 65007)
    THEN <<>>
    ELSE IF g < 128 THEN <<g>>
    ELSE IF g < 2048 THEN <<192 + (g \div 64), 128 + (g % 64)>>
    ELSE IF g < 65536
    THEN <<224 + (g \div 4096), 128 + ((g \div 64) % 64), 128 + (g % 64)>>
    ELSE <<240 + (g \div 262144), 128 + ((g \div 4096) % 64),
           128 + ((g \div 64) % 64), 128 + (g % 64)>>

\* calc_line_len: one past the last cell whose character is not zero
calc_line_len(line) ==
    LET used == {i \in 1..Size(line) : line.ch[i] # 0}
    IN IF used = {} THEN 0 ELSE CHOOSE i \in used : \A j \in used : j <= i

\* the encoded non-empty cells of columns i .. end-1
RECURSIVE CopyCells(_, _, _)
CopyCells(line, i, end) ==
    IF i < Size(line) /\ i < end
    THEN (IF ChAt(line, i) # 0 THEN Utf8(ChAt(line, i)) ELSE <<>>)
         \o CopyCells(line, i + 1, end)
    ELSE <<>>

\* copy_line: the bytes written for one row; start and len are unsigned, so a
\* negative len wraps and start + len is either huge or below start
copy_line(line, start, len) ==
    LET line_len == calc_line_len(line)
        sum == start + len
        end == IF len < 0 /\ sum < 0 THEN line_len
               ELSE IF sum > line_len THEN line_len ELSE sum
    IN IF start > line_len THEN <<>>
       ELSE CopyCells(line, start, end) \o Utf8(NEWLINE)

IsTop(p) == p.line = NULL /\ p.y = SELECTION_TOP

\* the loop of norm_selection over the scrollback from end->line
RECURSIVE NormWalk(_, _, _)
NormWalk(start, end, iter) ==
    IF iter # NULL /\ iter # sb_last
    THEN IF iter = start.line
         THEN NormWalk(end, start, NextLine(iter))
         ELSE NormWalk(start, end, NextLine(iter))
    ELSE <<start, end>>

\* norm_selection: the pair (*start, *end) it leaves
norm_selection(start, end) ==
    IF IsTop(end) THEN <<end, start>>
    ELSE IF start.line # NULL /\ end.line # NULL THEN
        IF start.line = end.line
        THEN IF start.x > end.x THEN <<end, start>> ELSE <<start, end>>
        ELSE NormWalk(start, end, end.line)
    ELSE IF start.line = NULL /\ end.line # NULL THEN <<end, start>>
    ELSE IF start.y = end.y
    THEN IF start.x > end.x THEN <<end, start>> ELSE <<start, end>>
    ELSE IF start.y > end.y THEN <<end, start>>
    ELSE <<start, end>>

RECURSIVE CountWalk(_)
CountWalk(iter) ==
    IF iter = NULL THEN 0
    ELSE IF iter = sb_last THEN 1
    ELSE 1 + CountWalk(NextLine(iter))

selection_count_lines_sb(start, end) ==
    IF start.line # NULL /\ start.line = end.line THEN 1
    ELSE CountWalk(start.line)

selection_count_lines(start, end) ==
    IF start.line # NULL /\ end.line # NULL THEN 0
    ELSE end.y - start.y + 1

calc_selection_line_len_sb(start, end, line) ==
    IF start.line = end.line THEN end.x - start.x + 1
    ELSE IF line = start.line THEN SizeX - start.x
    ELSE IF line = end.line THEN end.x + 1
    ELSE SizeX

\* calc_selection_line_len without the one-line case
calc_selection_line_len_no_one_line(start, end, line_num) ==
    IF start.line = NULL /\ line_num = start.y THEN SizeX - start.x
    ELSE IF line_num = end.y THEN end.x + 1
    ELSE SizeX

calc_selection_line_len(start, end, line_num) ==
    IF start.line = NULL /\ start.y = end.y THEN end.x - start.x + 1
    ELSE IF start.line = NULL /\ line_num = start.y THEN SizeX - start.x
    ELSE IF line_num = end.y THEN end.x + 1
    ELSE SizeX

calc_line_copy_buffer(num_lines) == SizeX * num_lines * 4 + 1

\* the rows copy_lines_sb walks, as the bytes each contributes
RECURSIVE SbWalk(_, _, _)
SbWalk(start, end, iter) ==
    IF iter = NULL THEN <<>>
    ELSE LET line_x == IF iter = start.line THEN start.x ELSE 0
             line_len == calc_selection_line_len_sb(start, end, iter)
             piece == copy_line(Rows[iter], line_x, line_len)
         IN IF iter = sb_last \/ iter = end.line THEN <<piece>>
            ELSE <<piece>> \o SbWalk(start, end, NextLine(iter))

copy_lines_sb(start, end) ==
    IF start.line = NULL THEN <<>> ELSE SbWalk(start, end, start.line)

\* con->lines[i] is an array of size_y rows
InLines(i) == 0 <= i /\ i < SizeY

\* the rows copy_lines walks, as the bytes each contributes; a row index
\* outside the array contributes the marker <<-1>>
RECURSIVE LinesWalk(_, _, _)
LinesWalk(start, end, i) ==
    IF i > end.y THEN <<>>
    ELSE LET line_len == calc_selection_line_len(start, end, i)
             line_x == IF start.line = NULL /\ i = start.y THEN start.x ELSE 0
             piece == IF InLines(i)
                      THEN copy_line(Rows[LinesRef(i)], line_x, line_len)
                      ELSE <<-1>>
         IN <<piece>> \o LinesWalk(start, end, i + 1)

copy_lines(start, end) ==
    IF end.line # NULL THEN <<>> ELSE LinesWalk(start, end, start.y)

RECURSIVE Flatten(_)
Flatten(pieces) ==
    IF pieces = <<>> THEN <<>> ELSE Head(pieces) \o Flatten(Tail(pieces))

\* the top of a normalized selection with the TOP sentinel resolved
ResolveTop(start) ==
    IF IsTop(start)
    THEN IF sb_first # NULL THEN [start EXCEPT !.line = sb_first, !.x = 0]
         ELSE [start EXCEPT !.y = 0, !.x = 0]
    ELSE start

\* the copies of start and end that tsm_screen_selection_copy walks:
\* normalized, with the TOP sentinel resolved
copy_span ==
    LET n == norm_selection(sel_start, sel_end) IN <<ResolveTop(n[1]), n[2]>>

\* total_lines and buf_size
copy_total_lines ==
    selection_count_lines_sb(copy_span[1], copy_span[2])
    + selection_count_lines(copy_span[1], copy_span[2])

copy_buf_size == calc_line_copy_buffer(copy_total_lines)

\* what copy_lines_sb and then copy_lines write, row by row
copy_pieces ==
    copy_lines_sb(copy_span[1], copy_span[2])
    \o copy_lines(copy_span[1], copy_span[2])

\* a text with every marker of an out-of-array row replaced by the bytes g
RECURSIVE Subst(_, _)
Subst(text, g) ==
    IF text = <<>> THEN <<>>
    ELSE (IF Head(text) = -1 THEN g ELSE <<Head(text)>>) \o Subst(Tail(text), g)

\* selection_copy without the sel_active check: an empty successful result
selection_copy_no_check(env) ==
    IF ~sel_active \/ (IsTop(sel_start) /\ IsTop(sel_end))
    THEN [ret |-> 0, out |-> IF env = "nomem" THEN NoOut ELSE Buf(<<>>)]
    ELSE [ret |-> -ENOMEM, out |-> NoOut]

\* tsm_screen_selection_copy: the return value and what *out is set to; env
\* is "inval" (out is NULL), "nomem" (the allocation fails) or "ok"
selection_copy(env) ==
    IF env = "inval" THEN [ret |-> -EINVAL, out |-> NoOut]
    ELSE IF ~sel_active THEN [ret |-> -ENOENT, out |-> NoOut]
    ELSE IF IsTop(sel_start) /\ IsTop(sel_end)
    THEN [ret |-> 0, out |-> IF env = "nomem" THEN NoOut ELSE Buf(<<>>)]
    ELSE LET text == Flatten(copy_pieces)
             pos == Len(text)
         IN IF env = "nomem" \/ copy_buf_size < 0
            THEN [ret |-> -ENOMEM, out |-> NoOut]
            ELSE IF pos > 0
            THEN [ret |-> pos - 1, out |-> Buf(SubSeq(text, 1, pos - 1))]
            ELSE [ret |-> 0, out |-> Buf(<<>>)]

\* the call gets as far as copying rows
copy_walks(env) ==
    /\ env = "ok" /\ sel_active
    /\ ~(IsTop(sel_start) /\ IsTop(sel_end))
    /\ copy_buf_size >= 0

\* copy_lines reads con->lines[i] with i outside 0 .. size_y - 1
copy_reads_outside == \E n \in 1..Len(copy_pieces) : copy_pieces[n] = <<-1>>

\* the rows written do not fit the buf_size bytes allocated
copy_overflows == Len(Flatten(copy_pieces)) > copy_buf_size

\* what a row read from outside the array may contribute: nothing, an empty
\* row, a row of one character
Garbage == {<<>>, <<NEWLINE>>, <<63, NEWLINE>>}

\* the outcomes of tsm_screen_selection_copy.  A call that stays inside the
\* array and the buffer has the one outcome selection_copy gives.  A call that
\* reads outside the array or writes past the buffer has undefined behaviour:
\* the process is killed (abort), or the call returns with whatever the stray
\* row held.
copy_outcomes(env) ==
    LET r == selection_copy(env)
    IN IF copy_walks(env) /\ (copy_reads_outside \/ copy_overflows)
       THEN {[abort |-> TRUE, ret |-> 0, out |-> NoOut]}
            \cup {[abort |-> FALSE,
                   ret |-> Len(Subst(r.out.text, g)),
                   out |-> Buf(Subst(r.out.text, g))] : g \in Garbage}
       ELSE {[abort |-> FALSE, ret |-> r.ret, out |-> r.out]}

\* the bytes of the scrollback rows from iter on, each in full
RECURSIVE AllSb(_)
AllSb(iter) ==
    IF iter = NULL THEN <<>>
    ELSE copy_line(Rows[iter], 0, Size(Rows[iter])) \o AllSb(NextLine(iter))

\* the bytes of con->lines[i] .. con->lines[size_y - 1]
RECURSIVE AllLines(_)
AllLines(i) ==
    IF i >= SizeY THEN <<>>
    ELSE copy_line(Rows[LinesRef(i)], 0, SizeX) \o AllLines(i + 1)

\* copy_all with the last line break removed, as selection_copy does
copy_all_stripped(env) ==
    IF env = "nomem" THEN [ret |-> -ENOMEM, out |-> NoOut]
    ELSE LET text == AllSb(sb_first) \o AllLines(0)
         IN [ret |-> Len(text) - 1, out |-> Buf(SubSeq(text, 1, Len(text) - 1))]

\* tsm_screen_copy_all: the return value and what *out is set to
copy_all(env) ==
    IF env = "inval" THEN [ret |-> -EINVAL, out |-> NoOut]
    ELSE IF env = "nomem" THEN [ret |-> -ENOMEM, out |-> NoOut]
    ELSE LET text == AllSb(sb_first) \o AllLines(0)
         IN [ret |-> Len(text), out |-> Buf(text)]

Envs == {"ok", "nomem"}

----------------------------------------------------------------------------
\* the rows split back into the scrollback list and the viewport array
SetRows(R) ==
    /\ sb' = SubSeq(R, 1, Len(sb))
    /\ lines' = SubSeq(R, Len(sb) + 1, Len(R))

\* the last call: its name; whether it went past its early return (eff) and,
\* if so, its arguments; for the two extraction calls, env: "ok" or "nomem"
\* (the allocation fails).  con and out are never NULL.
OpRec(name, x, y, env, eff) ==
    [name |-> name, x |-> IF eff THEN x ELSE 0, y |-> IF eff THEN y ELSE 0,
     env |-> env, eff |-> eff]

\* the process has not been killed
Running == op.name # "abort"

\* a call that returns void
Void == /\ ret' = 0
        /\ out' = NoOut

XS == 0..(SizeX - 1)
YS == 0..(SizeY - 1)

TypeOK ==
    /\ Len(sb) <= MaxHist
    /\ Len(lines) = SizeY
    /\ sb_pos \in 0..Len(sb)
    /\ sel_active \in BOOLEAN
    /\ age_cnt \in 0..MaxAge

Init ==
    /\ \E h \in {0, MaxHist} : sb = [g \in 1..h |-> HistPat(g, h)]
    /\ lines = [i \in 1..SizeY |-> ViewPat(i - 1)]
    /\ sb_pos \in 0..Len(sb)
    /\ sel_active = FALSE
    /\ sel_start = Pos(NULL, 0, 0)
    /\ sel_end = Pos(NULL, 0, 0)
    /\ age_cnt = 0
    /\ op = OpRec("init", 0, 0, "ok", FALSE)
    /\ ret = 0
    /\ out = NoOut
    /\ norm_res = <<>>

\* reset without the early return on !con->sel_active
ResetNoEarlyReturn ==
    /\ Running
    /\ age_cnt < MaxAge
    /\ op' = OpRec("reset", 0, 0, "ok", sel_active)
    /\ Void
    /\ LET age == screen_inc_age(age_cnt) IN
         /\ age_cnt' = age
         /\ SetRows(selection_age(Rows, sel_start, sel_end, age))
         /\ sel_active' = FALSE
         /\ UNCHANGED <<sb_pos, sel_start, sel_end>>
    /\ UNCHANGED norm_res

\* tsm_screen_selection_reset
Reset ==
    /\ Running
    /\ sel_active => age_cnt < MaxAge
    /\ op' = OpRec("reset", 0, 0, "ok", sel_active)
    /\ Void
    /\ IF ~sel_active
       THEN UNCHANGED con
       ELSE LET age == screen_inc_age(age_cnt) IN
            /\ age_cnt' = age
            /\ SetRows(selection_age(Rows, sel_start, sel_end, age))
            /\ sel_active' = FALSE
            /\ UNCHANGED <<sb_pos, sel_start, sel_end>>
    /\ UNCHANGED norm_res

\* tsm_screen_selection_start
Start(posx, posy) ==
    /\ Running
    /\ age_cnt < MaxAge
    /\ op' = OpRec("start", posx, posy, "ok", TRUE)
    /\ Void
    /\ LET age == screen_inc_age(age_cnt)
           R1 == IF sel_active
                 THEN selection_age(Rows, sel_start, sel_end, age)
                 ELSE Rows
           p == selection_set(posx, posy)
       IN /\ age_cnt' = age
          /\ sel_active' = TRUE
          /\ sel_start' = p
          /\ sel_end' = p
          /\ SetRows(selection_age(R1, p, p, age))
    /\ UNCHANGED <<sb_pos, norm_res>>

\* target that reorders start and end in place when the new end lies on a
\* row above start
TargetReorders(posx, posy) ==
    /\ Running
    /\ sel_active => age_cnt < MaxAge
    /\ op' = OpRec("target", posx, posy, "ok", sel_active)
    /\ Void
    /\ IF ~sel_active
       THEN UNCHANGED con
       ELSE LET age == screen_inc_age(age_cnt)
                old_end == sel_end
                p == selection_set(posx, posy)
                above == p.line # NULL /\ sel_start.line = NULL
            IN /\ age_cnt' = age
               /\ sel_end' = IF above THEN sel_start ELSE p
               /\ sel_start' = IF above THEN p ELSE sel_start
               /\ SetRows(selection_age(Rows, old_end, p, age))
               /\ UNCHANGED <<sb_pos, sel_active>>
    /\ UNCHANGED norm_res

\* tsm_screen_selection_target
Target(posx, posy) ==
    /\ Running
    /\ sel_active => age_cnt < MaxAge
    /\ op' = OpRec("target", posx, posy, "ok", sel_active)
    /\ Void
    /\ IF ~sel_active
       THEN UNCHANGED con
       ELSE LET age == screen_inc_age(age_cnt)
                old_end == sel_end
                p == selection_set(posx, posy)
            IN /\ age_cnt' = age
               /\ sel_end' = p
               /\ SetRows(selection_age(Rows, old_end, p, age))
               /\ UNCHANGED <<sb_pos, sel_active, sel_start>>
    /\ UNCHANGED norm_res

\* select_word that advances the age counter on entry, as the other
\* operations do, and so also on a cell that holds no letter or digit
WordAgesFirst(posx, posy) ==
    /\ Running
    /\ age_cnt < MaxAge
    /\ op' = OpRec("word", posx, posy, "ok",
                   WordHit(Rows[line_get(posy)], posx))
    /\ Void
    /\ LET age == screen_inc_age(age_cnt)
           R1 == IF sel_active
                 THEN selection_age(Rows, sel_start, sel_end, age)
                 ELSE Rows
           line == R1[line_get(posy)]
       IN /\ age_cnt' = age
          /\ IF WordHit(line, posx)
             THEN LET startx == ScanLeft(line, posx - 1)
                      endx == ScanRight(line, posx + 1)
                      p == selection_set(startx, posy)
                      q == [p EXCEPT !.x = endx]
                  IN /\ sel_active' = TRUE
                     /\ sel_start' = p
                     /\ sel_end' = q
                     /\ SetRows(selection_age(R1, p, q, age))
             ELSE /\ SetRows(R1)
                  /\ UNCHANGED <<sel_active, sel_start, sel_end>>
    /\ UNCHANGED <<sb_pos, norm_res>>

\* tsm_screen_selection_word
Word(posx, posy) ==
    /\ Running
    /\ op' = OpRec("word", posx, posy, "ok",
                   WordHit(Rows[line_get(posy)], posx))
    /\ Void
    /\ LET R1 == IF sel_active
                 THEN selection_age(Rows, sel_start, sel_end, age_cnt)
                 ELSE Rows
           line == R1[line_get(posy)]
       IN IF WordHit(line, posx)
          THEN LET age == screen_inc_age(age_cnt)
                   startx == ScanLeft(line, posx - 1)
                   endx == ScanRight(line, posx + 1)
                   p == selection_set(startx, posy)
                   q == [p EXCEPT !.x = endx]
               IN /\ age_cnt < MaxAge
                  /\ age_cnt' = age
                  /\ sel_active' = TRUE
                  /\ sel_start' = p
                  /\ sel_end' = q
                  /\ SetRows(selection_age(R1, p, q, age))
          ELSE /\ SetRows(R1)
               /\ UNCHANGED <<sel_active, sel_start, sel_end, age_cnt>>
    /\ UNCHANGED <<sb_pos, norm_res>>

\* select_line without sel_end.x = size_x - 1
LineNoEndColumn(posy) ==
    /\ Running
    /\ age_cnt < MaxAge
    /\ op' = OpRec("line", 0, posy, "ok", TRUE)
    /\ Void
    /\ LET age == screen_inc_age(age_cnt)
           R1 == IF sel_active
                 THEN selection_age(Rows, sel_start, sel_end, age)
                 ELSE Rows
           p == selection_set(0, posy)
       IN /\ age_cnt' = age
          /\ sel_active' = TRUE
          /\ sel_start' = p
          /\ sel_end' = p
          /\ SetRows(selection_age(R1, p, p, age))
    /\ UNCHANGED <<sb_pos, norm_res>>

\* tsm_screen_selection_line
Line(posy) ==
    /\ Running
    /\ age_cnt < MaxAge
    /\ op' = OpRec("line", 0, posy, "ok", TRUE)
    /\ Void
    /\ LET age == screen_inc_age(age_cnt)
           R1 == IF sel_active
                 THEN selection_age(Rows, sel_start, sel_end, age)
                 ELSE Rows
           p == selection_set(0, posy)
           q == [p EXCEPT !.x = SizeX - 1]
       IN /\ age_cnt' = age
          /\ sel_active' = TRUE
          /\ sel_start' = p
          /\ sel_end' = q
          /\ SetRows(selection_age(R1, p, q, age))
    /\ UNCHANGED <<sb_pos, norm_res>>

\* selection_copy that normalizes the stored start and end in place instead
\* of copies of them
SelectionCopyInPlace(env) ==
    /\ Running
    /\ \E r \in copy_outcomes(env) :
          /\ op' = IF r.abort THEN OpRec("abort", 0, 0, env, FALSE)
                   ELSE OpRec("copy", 0, 0, env, env = "ok" /\ sel_active)
          /\ ret' = r.ret
          /\ out' = r.out
    /\ sel_start' = IF copy_walks(env) THEN copy_span[1] ELSE sel_start
    /\ sel_end' = IF copy_walks(env) THEN copy_span[2] ELSE sel_end
    /\ UNCHANGED <<sb, lines, sb_pos, sel_active, age_cnt, norm_res>>

\* tsm_screen_selection_copy
SelectionCopy(env) ==
    /\ Running
    /\ \E r \in copy_outcomes(env) :
          /\ op' = IF r.abort THEN OpRec("abort", 0, 0, env, FALSE)
                   ELSE OpRec("copy", 0, 0, env, env = "ok" /\ sel_active)
          /\ ret' = r.ret
          /\ out' = r.out
    /\ UNCHANGED <<con, norm_res>>

\* tsm_screen_copy_all
CopyAll(env) ==
    /\ Running
    /\ op' = OpRec("copy_all", 0, 0, env, env = "ok")
    /\ LET r == copy_all(env)
       IN /\ ret' = r.ret
          /\ out' = r.out
    /\ UNCHANGED <<con, norm_res>>

Next ==
    \/ Reset
    \/ \E x \in XS, y \in YS : Start(x, y)
    \/ \E x \in XS, y \in YS : Target(x, y)
    \/ \E x \in 0..SizeX, y \in YS : Word(x, y)
    \/ \E y \in YS : Line(y)
    \/ \E env \in Envs : SelectionCopy(env)
    \/ \E env \in Envs : CopyAll(env)

Spec == Init /\ [][Next]_vars

----------------------------------------------------------------------------
\* norm_selection on its own: every pair of positions over a scrollback of
\* up to MaxHist rows, normalized in both argument orders

\* the positions: the TOP sentinel, a scrollback row with a column (as
\* selection_set leaves it), a viewport row index with a column
Positions(h) ==
    {Pos(NULL, 0, SELECTION_TOP)}
    \cup {Pos(l, x, 0) : l \in 1..h, x \in XS}
    \cup {Pos(NULL, x, y) : x \in XS, y \in YS}

InitNorm ==
    /\ \E h \in 0..MaxHist :
          /\ sb = [g \in 1..h |-> HistPat(g, h)]
          /\ sel_start \in Positions(h)
          /\ sel_end \in Positions(h)
    /\ lines = [i \in 1..SizeY |-> ViewPat(i - 1)]
    /\ sb_pos = NULL
    /\ sel_active = TRUE
    /\ age_cnt = 0
    /\ op = OpRec("init", 0, 0, "ok", FALSE)
    /\ ret = 0
    /\ out = NoOut
    /\ norm_res = <<>>

Normalize ==
    /\ op.name = "init"
    /\ op' = OpRec("norm", 0, 0, "ok", TRUE)
    /\ norm_res' = <<norm_selection(sel_start, sel_end),
                     norm_selection(sel_end, sel_start)>>
    /\ UNCHANGED <<con, ret, out>>

NextNorm == Normalize

SpecNorm == InitNorm /\ [][NextNorm]_vars

----------------------------------------------------------------------------
\* One operation on any selection: the selection as scrolling and retiring
\* rows may have left it (either end the TOP sentinel, anchored to any
\* scrollback row, or a viewport row index), any scroll cursor, and a viewport
\* of the usual rows or of rows full of four-byte characters

\* a row with U+1F600 in every cell
RowWide == Row([i \in 1..SizeX |-> 128512])

EnvsSel == Envs \cup {"inval"}

InitSel ==
    /\ \E h \in 0..MaxHist :
          /\ sb = [g \in 1..h |-> HistPat(g, h)]
          /\ sel_start \in Positions(h)
          /\ sel_end \in Positions(h)
    /\ \E wide \in BOOLEAN :
          lines = [i \in 1..SizeY |-> IF wide THEN RowWide ELSE ViewPat(i - 1)]
    /\ sb_pos \in 0..Len(sb)
    /\ sel_active \in BOOLEAN
    /\ age_cnt = 0
    /\ op = OpRec("init", 0, 0, "ok", FALSE)
    /\ ret = 0
    /\ out = NoOut
    /\ norm_res = <<>>

First == op.name = "init"

SelReset == First /\ Reset
SelStart == First /\ \E x \in XS, y \in YS : Start(x, y)
SelTarget == First /\ \E x \in XS, y \in YS : Target(x, y)
SelWord == First /\ \E x \in 0..SizeX, y \in YS : Word(x, y)
SelLine == First /\ \E y \in YS : Line(y)
SelCopy == First /\ \E env \in EnvsSel : SelectionCopy(env)
SelCopyAll == First /\ \E env \in EnvsSel : CopyAll(env)

NextSel ==
    \/ SelReset
    \/ SelStart
    \/ SelTarget
    \/ SelWord
    \/ SelLine
    \/ SelCopy
    \/ SelCopyAll

SpecSel == InitSel /\ [][NextSel]_vars

----------------------------------------------------------------------------
\* Properties

\* the defined order of positions: TOP, then the scrollback rows in list
\* order, then the viewport rows by index; the column breaks ties
RowRank(p) ==
    IF IsTop(p) THEN 0
    ELSE IF p.line # NULL THEN p.line
    ELSE Len(sb) + 1 + p.y

PosLe(a, b) ==
    \/ RowRank(a) < RowRank(b)
    \/ (RowRank(a) = RowRank(b) /\ (IsTop(a) \/ a.x <= b.x))

\* C1: while the selection is Inactive, selection_copy returns -ENOENT, does
\* not set *out and changes nothing of the screen.
C1_CopyInactiveNoSelection ==
    [][(op'.name = "copy" /\ ~sel_active) =>
        (ret' = -ENOENT /\ out' = NoOut /\ UNCHANGED con)]_vars

\* a copy refused with -ENOENT after a selection was made and reset
C1_Witness ==
    op.name = "copy" /\ ~sel_active /\ age_cnt >= 2 /\ ret = -ENOENT

\* C2: a reset leaves the selection Inactive, and a reset of an Inactive
\* selection (so every second reset in a row) changes nothing of the screen:
\* the age counter, every cell and row age, start and end stay as they were.
C2_ResetIdempotent ==
    [][(op'.name = "reset") =>
        /\ ~sel_active'
        /\ (~sel_active => UNCHANGED con)
        /\ (op.name = "reset" => UNCHANGED con)]_vars

\* a reset that found the selection already reset
C2_Witness ==
    op.name = "reset" /\ ~op.eff /\ ~sel_active /\ age_cnt >= 2

\* C3: norm_selection returns top <= bottom in the defined order, and the
\* same pair whichever argument order it is given.
C3_NormOrdered ==
    op.name = "norm" =>
        /\ PosLe(norm_res[1][1], norm_res[1][2])
        /\ norm_res[1] = norm_res[2]

\* the rows on display, top to bottom: the scrollback from the scroll cursor
\* on, then the viewport; the first SizeY of them are addressed by y
ShownSb == IF sb_pos = NULL THEN 0 ELSE Len(sb) - sb_pos + 1

\* the reference of display row y
DisplayRef(y) == IF y < ShownSb THEN sb_pos + y ELSE LinesRef(y - ShownSb)

\* the position that names column x of display row y
DisplayPos(x, y) ==
    IF y < ShownSb THEN Pos(sb_pos + y, x, 0) ELSE Pos(NULL, x, y - ShownSb)

\* the reference of the row a position (not TOP) names
PosRef(p) == IF p.line # NULL THEN p.line ELSE LinesRef(p.y)

\* the encoded non-empty characters of a sequence of cell characters
RECURSIVE TextOf(_)
TextOf(chars) ==
    IF chars = <<>> THEN <<>>
    ELSE (IF Head(chars) # 0 THEN Utf8(Head(chars)) ELSE <<>>)
         \o TextOf(Tail(chars))

\* the number of line breaks in a text
RECURSIVE Breaks(_)
Breaks(text) ==
    IF text = <<>> THEN 0
    ELSE (IF Head(text) = NEWLINE THEN 1 ELSE 0) + Breaks(Tail(text))

\* C4: selection_start(x, y) immediately followed by a selection_copy that
\* gets its memory returns the one character of the cell at column x of
\* display row y, or the empty text if that cell is empty; ret is its length.
C4_StartThenCopy ==
    [][(op.name = "start" /\ op'.name = "copy" /\ op'.env = "ok") =>
        LET c == ChAt(Rows[DisplayRef(op.y)], op.x)
            text == IF c # 0 THEN Utf8(c) ELSE <<>>
        IN /\ out' = Buf(text)
           /\ ret' = Len(text)
           /\ Breaks(out'.text) = 0]_vars

\* a copy of a one-cell selection that returned the three bytes of one symbol
C4_Witness ==
    /\ op.name = "copy" /\ op.env = "ok"
    /\ sel_active /\ sel_start = sel_end /\ age_cnt = 1
    /\ out = Buf(Utf8(RowShort.ch[1]))
    /\ ret = 3

\* the number of rows between the rows of start and end, both included
SpanRows ==
    LET a == RowRank(sel_start)
        b == RowRank(sel_end)
    IN (IF a <= b THEN b - a ELSE a - b) + 1

\* C5: the text selection_copy returns for a selection spanning n rows holds
\* exactly n - 1 line breaks.
C5_CopyBreaks ==
    (op.name = "copy" /\ op.env = "ok" /\ sel_active) =>
        (out.set /\ Breaks(out.text) = SpanRows - 1)

\* the cell at column x of display row y holds a letter or a digit
AlnumAt(x, y) ==
    LET chars == Rows[DisplayRef(y)].ch
    IN x < Len(chars) /\ iswalnum(chars[x + 1])

\* the row "foo bar"
FooBar == Row(<<102, 111, 111, 32, 98, 97, 114>>)

\* every displayed cell that holds a letter or digit passes the guard of
\* select_word, so a select_word that did not pass it was on no such cell
GuardAgrees ==
    LET R == Rows
    IN \A y \in YS :
          LET shown == R[DisplayRef(y)].ch
              line == R[line_get(y)]
          IN \A x \in 0..(Len(shown) - 1) :
                iswalnum(shown[x + 1]) => WordHit(line, x)

\* C6: select_word(x, y) on a letter or digit makes the selection Active with
\* start and end on display row y, start.x <= x <= end.x, every cell between
\* them a letter or digit, and the cells next to the run, if any, not; in
\* "foo bar" column 2 gives columns 0 to 2.
C6_WordBounds ==
    [][(op'.name = "word") =>
        /\ \/ (~op'.eff /\ GuardAgrees)
           \/ \A x \in 0..SizeX, y \in YS :
                 (AlnumAt(x, y) /\ Word(x, y)) =>
                   LET r == DisplayRef(y)
                       chars == Rows[r].ch
                       sx == sel_start'.x
                       ex == sel_end'.x
                   IN /\ sel_active'
                      /\ PosRef(sel_start') = r
                      /\ PosRef(sel_end') = r
                      /\ sx <= x /\ x <= ex /\ ex < Len(chars)
                      /\ \A i \in sx..ex : iswalnum(chars[i + 1])
                      /\ sx > 0 => ~iswalnum(chars[sx])
                      /\ ex + 1 < Len(chars) => ~iswalnum(chars[ex + 2])
        /\ WordHit(FooBar, 2)
        /\ ScanLeft(FooBar, 1) = 0
        /\ ScanRight(FooBar, 3) = 2]_vars

\* a word of two or more letters selected from an Inactive selection
C6_Witness ==
    /\ op.name = "word" /\ op.eff
    /\ sel_active /\ age_cnt = 1
    /\ sel_start.x < sel_end.x
    /\ sel_start.x <= op.x /\ op.x <= sel_end.x

\* C7: select_word(x, y) on a cell that is empty, holds no letter or digit, or
\* lies outside the row leaves start, end, the active flag and the age counter
\* as they were: a select_word step that changes any of them is on a letter
\* or digit; in "foo bar" column 3 is no such cell.
C7_WordMissNoChange ==
    [][(op'.name = "word") =>
        /\ \/ UNCHANGED <<sel_start, sel_end, sel_active, age_cnt>>
           \/ \A x \in 0..SizeX, y \in YS : AlnumAt(x, y) \/ ~Word(x, y)
        /\ ~WordHit(FooBar, 3)]_vars

\* a select_word that missed while a selection of several cells was Active
C7_Witness ==
    /\ op.name = "word" /\ ~op.eff
    /\ sel_active /\ sel_start # sel_end

\* C8: select_line(y) makes the selection Active from column 0 to the last
\* column of display row y, and a selection_copy right after it that gets its
\* memory returns the non-empty characters of that row in column order, with
\* no line break.
C8_LineThenCopy ==
    [][/\ (op'.name = "line") =>
            /\ sel_active'
            /\ sel_start' = DisplayPos(0, op'.y)
            /\ sel_end' = DisplayPos(Size(Rows[DisplayRef(op'.y)]) - 1, op'.y)
       /\ (op.name = "line" /\ op'.name = "copy" /\ op'.env = "ok") =>
            LET text == TextOf(Rows[DisplayRef(op.y)].ch)
            IN /\ out' = Buf(text)
               /\ ret' = Len(text)
               /\ Breaks(out'.text) = 0]_vars

\* a copy of a whole-row selection that returned the text of the row "a c.."
C8_Witness ==
    /\ op.name = "copy" /\ op.env = "ok"
    /\ sel_active /\ sel_start.x = 0 /\ sel_end.x = SizeX - 1
    /\ PosRef(sel_start) = PosRef(sel_end)
    /\ out = Buf(TextOf(RowGap.ch))

\* every row, scrollback first, as its non-empty characters and a line break
RECURSIVE AllText(_)
AllText(R) ==
    IF R = <<>> THEN <<>>
    ELSE TextOf(Head(R).ch) \o <<NEWLINE>> \o AllText(Tail(R))

\* C9: copy_all changes nothing of the screen, whatever the selection; when it
\* gets its memory it returns every scrollback row, oldest first, then every
\* viewport row, each followed by a line break: Len(sb) + SizeY line breaks.
C9_CopyAllRows ==
    [][(op'.name = "copy_all") =>
        /\ UNCHANGED con
        /\ (op'.env = "ok") =>
            /\ out' = Buf(AllText(Rows))
            /\ ret' = Len(out'.text)
            /\ Breaks(out'.text) = Len(sb) + SizeY]_vars

\* a copy_all over a full scrollback while a selection of several cells is
\* Active
C9_Witness ==
    /\ op.name = "copy_all" /\ op.env = "ok"
    /\ Len(sb) = MaxHist /\ sel_active /\ sel_start # sel_end
    /\ Breaks(out.text) = MaxHist + SizeY

\* C10: selection_target leaves start and the active flag as they were; while
\* Active it sets end to the position of (x, y); while Inactive it changes
\* nothing of the screen.
C10_TargetKeepsStart ==
    [][(op'.name = "target") =>
        /\ sel_start' = sel_start
        /\ sel_active' = sel_active
        /\ sel_active => sel_end' = DisplayPos(op'.x, op'.y)
        /\ ~sel_active => UNCHANGED con]_vars

\* a target that moved end onto a scrollback row above a viewport start
C10_Witness ==
    /\ op.name = "target" /\ op.eff
    /\ sel_active /\ sel_start.line = NULL /\ sel_end.line # NULL

\* C11: selection_copy is a pure read: whether it returns a text, -EINVAL,
\* -ENOENT or -ENOMEM, it leaves the stored start and end (also when start
\* lies below end or is the TOP sentinel), the active flag, the age counter
\* and the age of every cell and row as they were.
C11_CopyPureRead ==
    [][(op'.name = "copy") =>
        /\ UNCHANGED <<sel_start, sel_end, sel_active, age_cnt, sb_pos>>
        /\ Len(Rows') = Len(Rows)
        /\ \A r \in 1..Len(Rows) :
              /\ Rows'[r].age = Rows[r].age
              /\ Rows'[r].cell_age = Rows[r].cell_age]_vars

\* a copy that returned a text for a selection stored with start on the last
\* viewport row and end the TOP sentinel
C11_Witness ==
    /\ op.name = "copy" /\ op.eff
    /\ sel_active /\ IsTop(sel_end)
    /\ sel_start.line = NULL /\ sel_start.y = SizeY - 1
    /\ out.set /\ Len(out.text) > 0

\* C12: for two positions anchored to different scrollback rows,
\* norm_selection returns the one on the earlier row of the list as top and
\* the one on the later row as bottom, in either argument order, also when
\* one of the rows is sb_last.
C12_NormHistory ==
    (/\ op.name = "norm"
     /\ sel_start.line # NULL /\ sel_end.line # NULL
     /\ sel_start.line # sel_end.line) =>
        LET top == IF sel_start.line < sel_end.line THEN sel_start ELSE sel_end
            bottom == IF sel_start.line < sel_end.line THEN sel_end
                      ELSE sel_start
        IN /\ norm_res[1] = <<top, bottom>>
           /\ norm_res[2] = <<top, bottom>>

\* C13: when exactly one of the two positions is the TOP sentinel,
\* norm_selection returns the sentinel as top and the other position, on a
\* scrollback row or a viewport row, as bottom, in either argument order.
C13_NormTop ==
    (op.name = "norm" /\ IsTop(sel_start) # IsTop(sel_end)) =>
        LET top == IF IsTop(sel_start) THEN sel_start ELSE sel_end
            bottom == IF IsTop(sel_start) THEN sel_end ELSE sel_start
        IN /\ norm_res[1] = <<top, bottom>>
           /\ norm_res[2] = <<top, bottom>>

\* the selection operations that stamp ages
Stampers == {"reset", "start", "target", "word", "line"}

\* C14: an operation that stamps the age of any cell or row advances the age
\* counter first, so every age it writes, for the previous span and for the
\* new one, is the advanced value; none stamps without advancing.
C14_StampsCarryNewAge ==
    [][(op'.name \in Stampers) =>
        \A r \in 1..Len(Rows) :
           /\ (Rows'[r].age # Rows[r].age) =>
                (age_cnt' = age_cnt + 1 /\ Rows'[r].age = age_cnt')
           /\ \A j \in 1..Size(Rows[r]) :
                (Rows'[r].cell_age[j] # Rows[r].cell_age[j]) =>
                   (age_cnt' = age_cnt + 1 /\ Rows'[r].cell_age[j] = age_cnt')
      ]_vars

\* C15: the age counter never decreases and advances by exactly one in each
\* selection_start, each select_line, each selection_target or
\* selection_reset while Active and each select_word on a letter or digit; it
\* stays as it is in reset or target while Inactive, in select_word on any
\* other cell, in selection_copy and in copy_all.
C15_AgeAdvance ==
    [][/\ age_cnt' >= age_cnt
       /\ (op'.name \in {"start", "line"}) => age_cnt' = age_cnt + 1
       /\ (op'.name \in {"reset", "target"}) =>
             age_cnt' = age_cnt + (IF sel_active THEN 1 ELSE 0)
       /\ (op'.name = "word") =>
             \/ /\ op'.eff
                /\ AlnumAt(op'.x, op'.y)
                /\ age_cnt' = age_cnt + 1
             \/ /\ ~op'.eff
                /\ age_cnt' = age_cnt
                /\ \/ GuardAgrees
                   \/ \A x \in 0..SizeX, y \in YS : AlnumAt(x, y) => ~Word(x, y)
       /\ (op'.name \in {"copy", "copy_all"}) => age_cnt' = age_cnt]_vars

\* the age counter at 2 after a select_word on a letter
C15_Witness ==
    /\ op.name = "word" /\ op.eff
    /\ age_cnt = 2 /\ sel_active

\* position p lies at or before column c of the row with reference r
AtOrBefore(p, r, c) ==
    \/ IsTop(p)
    \/ RowRank(p) < r
    \/ (RowRank(p) = r /\ p.x <= c)

\* column c of the row with reference r lies at or before position p
AtOrAfter(p, r, c) ==
    /\ ~IsTop(p)
    /\ \/ r < RowRank(p)
       \/ (r = RowRank(p) /\ c <= p.x)

\* the cell at column c of the row with reference r is selected when the
\* selection is (active, a, b): it lies between a and b in the defined order
InSpan(active, a, b, r, c) ==
    /\ active
    /\ \/ (AtOrBefore(a, r, c) /\ AtOrAfter(b, r, c))
       \/ (AtOrBefore(b, r, c) /\ AtOrAfter(a, r, c))

\* C16: after selection_start, selection_target, selection_reset or
\* select_line, every cell of the SizeY displayed rows that is selected before
\* the operation and not after it, or after it and not before, has its own
\* age or the age of its row equal to the age counter.
C16_DamageComplete ==
    [][(op'.name \in {"start", "target", "reset", "line"}) =>
        \A y \in YS :
           LET r == DisplayRef(y)
           IN \A c \in 0..(Size(Rows[r]) - 1) :
                (InSpan(sel_active, sel_start, sel_end, r, c)
                    # InSpan(sel_active', sel_start', sel_end', r, c))
                => \/ Rows'[r].cell_age[c + 1] = age_cnt'
                   \/ Rows'[r].age = age_cnt']_vars

\* C17: the bytes tsm_screen_selection_copy writes for the rows it walks,
\* the terminator taking the place of the last line break, never exceed the
\* buf_size = size_x * total_lines * 4 + 1 bytes it allocated.
C17_BufferBound ==
    (op.name \in {"copy", "abort"} /\ copy_walks(op.env)) =>
        Len(Flatten(copy_pieces)) <= copy_buf_size

\* a position on a viewport row
OnViewport(p) == p.line = NULL /\ p.y >= 0

\* rows i..n of R in full, each as its non-empty characters and a line break
RECURSIVE FullRows(_, _, _)
FullRows(R, i, n) ==
    IF i > n THEN <<>>
    ELSE TextOf(R[i].ch) \o <<NEWLINE>> \o FullRows(R, i + 1, n)

\* C18: for an Active selection of the TOP sentinel and a viewport position
\* (r, c), stored in either order, selection_copy reads no viewport row
\* outside 0 .. SizeY - 1 and returns every scrollback row (none if there is
\* none) from column 0, then viewport rows 0 .. r - 1, then row r up to column
\* c, each once, with a line break between rows.
C18_TopToViewport ==
    (/\ op.name \in {"copy", "abort"} /\ op.env = "ok" /\ sel_active
     /\ \/ (IsTop(sel_start) /\ OnViewport(sel_end))
        \/ (IsTop(sel_end) /\ OnViewport(sel_start))) =>
        LET b == IF IsTop(sel_start) THEN sel_end ELSE sel_start
            last == Rows[LinesRef(b.y)].ch
        IN /\ op.name = "copy"
           /\ ~copy_reads_outside
           /\ out = Buf(FullRows(Rows, 1, LinesRef(b.y) - 1)
                        \o TextOf(SubSeq(last, 1, b.x + 1)))

\* a text without its line breaks
RECURSIVE NoBreaks(_)
NoBreaks(text) ==
    IF text = <<>> THEN <<>>
    ELSE (IF Head(text) = NEWLINE THEN <<>> ELSE <<Head(text)>>)
         \o NoBreaks(Tail(text))

\* C19: for an Active selection with one end anchored to scrollback row h at
\* column c and the other on viewport row r at column d, whichever of the two
\* is start, selection_copy returns, in this order and each once, the
\* non-empty characters of row h from column c, of every later scrollback row,
\* of viewport rows 0 .. r - 1, and of row r up to column d.
C19_HistoryToViewport ==
    (/\ op.name \in {"copy", "abort"} /\ op.env = "ok" /\ sel_active
     /\ \/ (sel_start.line # NULL /\ OnViewport(sel_end))
        \/ (sel_end.line # NULL /\ OnViewport(sel_start))) =>
        LET a == IF sel_start.line # NULL THEN sel_start ELSE sel_end
            b == IF sel_start.line # NULL THEN sel_end ELSE sel_start
            first == Rows[a.line].ch
            last == Rows[LinesRef(b.y)].ch
        IN /\ op.name = "copy"
           /\ out.set
           /\ NoBreaks(out.text) =
                TextOf(SubSeq(first, a.x + 1, Len(first)))
                \o NoBreaks(FullRows(Rows, a.line + 1, LinesRef(b.y) - 1))
                \o TextOf(SubSeq(last, 1, b.x + 1))

====
